---------------------------- MODULE Spec2Model ----------------------------
(***************************************************************************)
(* Model of the Birthdays cog (src/birthdays/devbirthday.py): the birthday *)
(* store config["birthdays"], the daily loop (initialise / do_today_bdays  *)
(* / handle_bday), the cleanup pass and the birthday input wizard          *)
(* (BDayInputSession).                                                     *)
(*                                                                         *)
(* Representation.  A Python value that may be None is a sequence of       *)
(* length 0 (None) or 1 (the value).  The store's bucket keys are the      *)
(* proleptic Gregorian ordinals the code puts through str()/int(); the     *)
(* decimal text of an integer is kept as the integer.  The host's clock is *)
(* taken in UTC, so datetime.date.today() and utcnow().date() agree.       *)
(***************************************************************************)
EXTENDS Integers, Sequences, FiniteSets, Bags, TLC

VARIABLES
    today,          \* UTC date on which the daily loop last woke
    birthdays,      \* config["birthdays"]: {ordinal: {user id: year}}
    members,        \* bot.servers: per served server, the users who are members of it
    scheduled,      \* the handle_bday calls made by the latest do_today_bdays
    pending,        \* handle_bday tasks created and not yet run
    posted,         \* messages built by the handle_bday tasks since the latest pass
    firedInYear,    \* per user: Feb-29-bucket triggers in the real year of today
    sessions,       \* the BDayInputSession objects still referenced, by identity
    bdayinputsesh,  \* Birthdays.bdayinputsesh: the list of input sessions
    bday_loop,      \* the task of initialise: "running", or "dead" once it raised
    setPending,     \* bday_set calls suspended in the send of B_SET_INTRO
    writebday,      \* dispatched "writebday" events not yet handled
    inputEnd,       \* dispatched "input_end" events not yet handled
    roles,          \* config["roles"]: its items, in the dict's order
    channels,       \* config["channels"]: its items, in the dict's order
    yesterday,      \* config["yesterday"]: the list of user ids
    held,           \* the host: <<server, user, role>> for each birthday role a member holds
    cleaning,       \* the clean_bday coroutines created and not yet finished
    handling,       \* the handle_bday coroutines suspended in the loop over the channels
    disable,        \* config["disable"]: the list of the disabled servers
    serverItems,    \* the host: <<server, id>> of each role and channel a server has
    savedYesterday, \* config["yesterday"] as the latest save_data wrote it to the file
    calc,           \* the latest call of calcLeapAge: its arguments and what it computed
    lastOp          \* what the last step did: "daily pass", "handle_bday",
                    \* "handle_bday: raised" (the task ended by an exception),
                    \* "bday_remove" (the command, when it removed a record), "on_writebday", "clean_bdays" (a handler that ends with the
                    \* cleanup; ": user deleted" when it deleted a record, else
                    \* ": bucket deleted" when it deleted a bucket), "not a
                    \* leap year" (that reply), "clean_settings: entry deleted"
                    \* (the clean command, when it deleted a setting), "on_input_end", "calcLeapAge",
                    \* or "other"

calVars  == <<today, scheduled, pending, posted, firedInYear, bday_loop>>
sessVars == <<sessions, bdayinputsesh, setPending, writebday, inputEnd>>
roleVars == <<roles, channels, yesterday, held, cleaning, handling>>
hostVars == <<disable, serverItems>>
vars     == <<today, birthdays, members, scheduled, pending, posted, firedInYear,
              bday_loop, sessions, bdayinputsesh, setPending, writebday, inputEnd,
              roles, channels, yesterday, held, cleaning, handling, disable,
              serverItems, savedYesterday, calc, lastOp>>

---------------------------------------------------------------------------
(* Bounds of the model *)

FirstYear == 2023
NumYears == 2
MaxSessions == 1
MaxRacing == 2
LeapAgeFirstYear == 1996
LeapAgeNumYears == 112
MaxScan == 8

LastYear == FirstYear + NumYears - 1
Users == {"u1", "u2"}
Servers == {"s1", "s2"}

None == <<>>
Some(x) == <<x>>

---------------------------------------------------------------------------
(* Calendar arithmetic of datetime / calendar *)

IsLeap(y) == (y % 4 = 0) /\ ((y % 100 # 0) \/ (y % 400 = 0))

DaysInMonth(y, m) ==
    IF m = 2 THEN (IF IsLeap(y) THEN 29 ELSE 28)
    ELSE IF m \in {4, 6, 9, 11} THEN 30 ELSE 31

RECURSIVE DaysBeforeMonth(_, _)
DaysBeforeMonth(y, m) ==
    IF m <= 1 THEN 0 ELSE DaysBeforeMonth(y, m - 1) + DaysInMonth(y, m - 1)

DaysBeforeYear(y) ==
    (y - 1) * 365 + ((y - 1) \div 4) - ((y - 1) \div 100) + ((y - 1) \div 400)

\* the dates datetime accepts: MINYEAR <= year <= MAXYEAR and a day of the month
ValidDate(y, m, d) ==
    /\ y \in 1..9999
    /\ m \in 1..12
    /\ d \in 1..DaysInMonth(y, m)

Date(y, m, d) == [year |-> y, month |-> m, day |-> d]

Toordinal(dt) == DaysBeforeYear(dt.year) + DaysBeforeMonth(dt.year, dt.month) + dt.day

\* variant: the day is not checked against the month of the new year
ReplaceYearUnchecked(dt, y) == Some(Date(y, dt.month, dt.day))

\* date.replace(year=y): the new date, or None when it raises ValueError
ReplaceYear(dt, y) ==
    IF ValidDate(y, dt.month, dt.day) THEN Some(Date(y, dt.month, dt.day)) ELSE None

\* variant: the day of the year is read on the calendar of a non-leap year
FromordinalNonLeap(n) ==
    LET doy == n - DaysBeforeYear(4)
        m   == CHOOSE k \in 1..12 :
                   /\ DaysBeforeMonth(1, k) < doy
                   /\ doy <= DaysBeforeMonth(1, k) + DaysInMonth(1, k)
    IN  Date(4, m, doy - DaysBeforeMonth(1, m))

\* datetime.fromordinal for the ordinals of the reference year 4
Fromordinal(n) ==
    LET doy == n - DaysBeforeYear(4)
        m   == CHOOSE k \in 1..12 :
                   /\ DaysBeforeMonth(4, k) < doy
                   /\ doy <= DaysBeforeMonth(4, k) + DaysInMonth(4, k)
    IN  Date(4, m, doy - DaysBeforeMonth(4, m))

\* now + timedelta(days=1), as a date
NextDay(dt) ==
    IF dt.day < DaysInMonth(dt.year, dt.month) THEN Date(dt.year, dt.month, dt.day + 1)
    ELSE IF dt.month < 12 THEN Date(dt.year, dt.month + 1, 1)
    ELSE Date(dt.year + 1, 1, 1)

---------------------------------------------------------------------------
(* The store: config["birthdays"] *)

EmptyDict == [x \in {} |-> x]

\* dict.get(key, {})
Bucket(b, k) == IF k \in DOMAIN b THEN b[k] ELSE EmptyDict

\* any(s.get_member(user_id) is not None for s in self.bot.servers)
Resolvable(mem, u) == \E s \in DOMAIN mem : u \in mem[s]

\* variant: the earlier record is kept
RemoveUserBdayKeeps(b, u) == b

\* variant: the buckets that hold the user are emptied
RemoveUserBdayWholeBucket(b, u) ==
    [k \in DOMAIN b |-> IF u \in DOMAIN b[k] THEN EmptyDict ELSE b[k]]

\* remove_user_bday
RemoveUserBday(b, u) ==
    [k \in DOMAIN b |-> [v \in (DOMAIN b[k]) \ {u} |-> b[k][v]]]

\* variant: the length test reads the bucket as it was before the deletions
CleanBdaysStaleLen(b, mem) ==
    [k \in {kk \in DOMAIN b : DOMAIN b[kk] # {}} |->
        [u \in {v \in DOMAIN b[k] : Resolvable(mem, v)} |-> b[k][u]]]

\* variant: only the buckets that are empty are deleted
CleanBdaysNoMemberTest(b, mem) ==
    [k \in {kk \in DOMAIN b : DOMAIN b[kk] # {}} |-> b[k]]

CleanBdays(b, mem) ==
    LET kept(k) == {u \in DOMAIN b[k] : Resolvable(mem, u)}
    IN  [k \in {kk \in DOMAIN b : kept(kk) # {}} |-> [u \in kept(k) |-> b[k][u]]]

\* self.config["birthdays"].setdefault(key, {})[user] = year
SetBday(b, k, u, y) ==
    [kk \in (DOMAIN b) \cup {k} |->
        IF kk = k
        THEN [v \in (DOMAIN Bucket(b, k)) \cup {u} |-> IF v = u THEN y ELSE b[k][v]]
        ELSE b[kk]]

\* the users recorded anywhere in the store
Registered(b) == UNION {DOMAIN b[k] : k \in DOMAIN b}

---------------------------------------------------------------------------
(* The daily pass *)

\* variant: the date is not moved to the reference year
ThisDateOfRealYear(dt) == dt

\* utcnow().date().replace(year=4)
ThisDate(dt) == Date(4, dt.month, dt.day)

\* `this_date.toordinal == n`: the bound method itself, never called, is compared
\* with an int, and a method equals no int
MethodEqualsInt(dt, n) == FALSE

\* one ensure_future(self.handle_bday(user_id, flag, year)) per item of the
\* bucket; `bucket` keeps the key the item was read from
Tasks(b, k, flag) ==
    SetToBag({[user |-> u, flag |-> flag, year |-> b[k][u], bucket |-> k] :
                 u \in DOMAIN Bucket(b, k)})

\* variant: toordinal() is called in the three tests and the Feb-29 bucket is
\* read with .get(str(1155), {})
DoTodayBdaysCalled(b, dt) ==
    LET td     == Date(4, dt.month, dt.day)
        first  == IF Toordinal(td) # 1155 THEN Tasks(b, Toordinal(td), 1) ELSE EmptyBag
        second == IF ~IsLeap(dt.year) /\ Toordinal(td) = 1154 THEN Tasks(b, 1155, 2) ELSE EmptyBag
        third  == IF Toordinal(td) = 1155 THEN Tasks(b, Toordinal(td), 3) ELSE EmptyBag
    IN  [tasks |-> first (+) second (+) third, raised |-> FALSE]

\* The tasks do_today_bdays creates and whether it raised.  The body of the
\* second branch evaluates str(1155, {}), a TypeError, before any task of it.
DoTodayBdays(b, dt) ==
    LET td     == ThisDate(dt)
        first  == IF ~MethodEqualsInt(td, 1155) THEN Tasks(b, Toordinal(td), 1) ELSE EmptyBag
        second == ~IsLeap(dt.year) /\ MethodEqualsInt(td, 1154)
        third  == IF MethodEqualsInt(td, 1155) THEN Tasks(b, Toordinal(td), 3) ELSE EmptyBag
    IN  IF second THEN [tasks |-> first, raised |-> TRUE]
        ELSE [tasks |-> first (+) third, raised |-> FALSE]

\* The message handle_bday builds, or None where it raises: calcLeapAge is
\* handed the stored year, the text of the wizard's input, and adds 1 to it.
Msg(t, thisYear) ==
    IF t.year = None
    THEN Some([user |-> t.user,
               variant |-> IF t.flag = 2 THEN "leap substitute" ELSE "birthday today",
               age |-> None])
    ELSE IF t.flag = 1
    THEN Some([user |-> t.user, variant |-> "now years old", age |-> Some(thisYear - t.year[1])])
    ELSE None

---------------------------------------------------------------------------
(* The leap age: foundLeap and calcLeapAge *)

\* variant: the leap years of range(y1, y2 + 1)
LeapdaysThrough(y1, y2) ==
    ((y2 \div 4) - ((y1 - 1) \div 4))
    - ((y2 \div 100) - ((y1 - 1) \div 100))
    + ((y2 \div 400) - ((y1 - 1) \div 400))

\* calendar.leapdays(y1, y2): the leap years of range(y1, y2)
Leapdays(y1, y2) ==
    (((y2 - 1) \div 4) - ((y1 - 1) \div 4))
    - (((y2 - 1) \div 100) - ((y1 - 1) \div 100))
    + (((y2 - 1) \div 400) - ((y1 - 1) \div 400))

\* the loop of foundLeap after `steps` iterations, y being the year reached:
\* the year returned, or None while the loop has not ended in MaxScan iterations
RECURSIVE FoundLeapLoop(_, _, _)
FoundLeapLoop(y, direction, steps) ==
    IF steps >= MaxScan THEN None
    ELSE IF IsLeap(y + direction * 1) THEN Some(y + direction * 1)
    ELSE FoundLeapLoop(y + direction * 1, direction, steps + 1)

\* variant: the year is tested before the first step
foundLeapFromSelf(year, direction) ==
    IF IsLeap(year) THEN Some(year) ELSE FoundLeapLoop(year, direction, 0)

\* variant: the loop steps backward whatever the direction
foundLeapBackward(year, direction) == FoundLeapLoop(year, 0 - 1, 0)

foundLeap(year, direction) == FoundLeapLoop(year, direction, 0)

\* a float that is a quotient of two integers, kept as the quotient
Quotient(n, d) == [num |-> n, den |-> d]
Leq(a, b) == a.num * b.den <= b.num * a.den
IsWhole(a, n) == a.num = n * a.den

\* what calcLeapAge computes from lower and upper: None where the division
\* raises ZeroDivisionError
LeapAgeOf(count, this_year, lower, upper) ==
    IF upper - lower = 0 THEN None
    ELSE Some(Quotient(count * (upper - lower) + (this_year - lower), upper - lower))

\* variant: the leap years are counted from the year of birth
calcLeapAgeFromBirthYear(year, this_year) ==
    LET lower == foundLeap(this_year, 0 - 1)
        upper == IF lower = None THEN None ELSE foundLeap(lower[1], 1)
    IN  [year |-> year, this_year |-> this_year, lower |-> lower, upper |-> upper,
         age |-> IF lower = None \/ upper = None THEN None
                 ELSE LeapAgeOf(Leapdays(year, this_year), this_year, lower[1], upper[1])]

\* calcLeapAge(year), this_year being datetime.date.today().year: the two
\* years found and the age returned (None where a loop does not end or the
\* division raises)
calcLeapAge(year, this_year) ==
    LET lower == foundLeap(this_year, 0 - 1)
        upper == IF lower = None THEN None ELSE foundLeap(lower[1], 1)
    IN  [year |-> year, this_year |-> this_year, lower |-> lower, upper |-> upper,
         age |-> IF lower = None \/ upper = None THEN None
                 ELSE LeapAgeOf(Leapdays(year + 1, this_year), this_year, lower[1], upper[1])]

---------------------------------------------------------------------------
(* The input wizard: BDayInputSession *)

\* what a user may type: yes, no, or an entry M-D / M-D,Y
Entries ==
    {<<2, 28, Some(9999)>>, <<2, 28, Some(10000)>>, <<2, 28, Some(0 - 9999)>>,
     <<2, 29, None>>, <<2, 29, Some(2001)>>, <<2, 29, Some(2004)>>,
     <<2, 30, None>>}
Contents ==
    {[kind |-> k, m |-> 0, d |-> 0, year |-> None] : k \in {"yes", "no"}}
    \cup {[kind |-> "date", m |-> e[1], d |-> e[2], year |-> e[3]] : e \in Entries}

\* strptime(date_str + "-0004", "%m-%d-%Y"), or None on ValueError
ParseDate(m, d) == IF ValidDate(4, m, d) THEN Some(Date(4, m, d)) ELSE None

\* check_year(year) is False
CheckYearIsFalse(year) ==
    IF year = None THEN FALSE
    ELSE ~(year[1] >= 0 - 9999 \/ year[1] <= 9999)

\* birthday.replace(year=int(year)) raises ValueError
ReplaceRaises(birthday, year) == ReplaceYear(birthday, year[1]) = None

\* check_answer on a message received while waiting for the birthday: the
\* entry is handed to send_bdayinput ("sent") or answered with one of the two
\* error messages.  A message that is no entry does not parse as a date.
CheckEntry(c) ==
    LET birthday == IF c.kind = "date" THEN ParseDate(c.m, c.d) ELSE None
    IN  IF birthday = None \/ CheckYearIsFalse(c.year) THEN "invalid"
        ELSE IF Toordinal(birthday[1]) = 1155 /\ c.year # None
                /\ ReplaceRaises(birthday[1], c.year)
        THEN "not a leap year"
        ELSE "sent"

RECURSIVE FirstOf(_, _, _)
FirstOf(list, sess, u) ==
    IF list = <<>> THEN None
    ELSE IF sess[Head(list)].starter = u THEN Some(Head(list))
    ELSE FirstOf(Tail(list), sess, u)

\* get_bdayinput_by_user
GetBdayinputByUser(u) == FirstOf(bdayinputsesh, sessions, u)

RECURSIVE ListRemove(_, _)
\* list.remove(x): the first occurrence
ListRemove(list, x) ==
    IF list = <<>> THEN <<>>
    ELSE IF Head(list) = x THEN Tail(list)
    ELSE <<Head(list)>> \o ListRemove(Tail(list), x)

InList(list, x) == \E i \in 1..Len(list) : list[i] = x

SetStatus(id, st) == [sessions EXCEPT ![id].status = st]

\* A session object lives while something refers to it: the list, its own
\* confirmtheterms coroutine, or a dispatched event.  An identity is free again
\* once the object is dropped.
Referenced(sess, list, writes, ends) ==
    {id \in DOMAIN sess :
        \/ InList(list, id)
        \/ sess[id].pc # "returned"
        \/ id \in ends
        \/ \E e \in writes : e.id = id}

Collect(sess, list, writes, ends) ==
    [id \in Referenced(sess, list, writes, ends) |-> sess[id]]

FreshId == CHOOSE i \in 1..(Cardinality(DOMAIN sessions) + 1) : i \notin DOMAIN sessions

\* the reply of `bday list` in a direct message: one line per bucket holding the user
DmListReply(b, u) ==
    {[month |-> Fromordinal(k).month, day |-> Fromordinal(k).day, year |-> b[k][u]] :
        k \in {kk \in DOMAIN b : u \in DOMAIN b[kk]}}

---------------------------------------------------------------------------
(* The settings config["roles"] and config["channels"], the list           *)
(* config["yesterday"] and the roles of the host.  A dict is the sequence   *)
(* of its items in the dict's order, an item being [key, val].              *)

RoleIds == {"r1", "r2"}
ChannelIds == {"c1"}

\* server.roles and server.channels, by id
ServerRoles(s) == {r \in RoleIds : <<s, r>> \in serverItems}
ServerChannels(s) == {c \in ChannelIds : <<s, c>> \in serverItems}

\* server.id, a string of digits; the id of s1 is the shorter and its digits
\* occur in the id of s2
ServerId(s) == IF s = "s1" THEN <<1>> ELSE <<2, 1>>

\* `a in b` for two strings: a is a substring of b
Within(a, b) ==
    \E i \in 0..(Len(b) - Len(a)) : SubSeq(b, i + 1, i + Len(a)) = a

Item(k, v) == [key |-> k, val |-> v]

\* dict.get(k)
Get(items, k) ==
    IF \E i \in 1..Len(items) : items[i].key = k
    THEN Some(items[CHOOSE i \in 1..Len(items) : items[i].key = k].val)
    ELSE None

\* dict[k] = v
SetItem(items, k, v) ==
    IF Get(items, k) = None THEN Append(items, Item(k, v))
    ELSE [i \in 1..Len(items) |-> IF items[i].key = k THEN Item(k, v) ELSE items[i]]

\* remove_setting
RemoveSetting(items, s) ==
    SelectSeq(items, LAMBDA e : ~Within(ServerId(s), ServerId(e.key)))

\* variant of CleanSettings: only the server is looked up
CleanSettingsServerOnly(items, mem, kind) ==
    SelectSeq(items, LAMBDA e : e.key \in DOMAIN mem)

\* clean_settings, on one of the two dicts: the items of a served server
\* that still has the channel or the role
CleanSettings(items, mem, kind) ==
    SelectSeq(items, LAMBDA e :
        /\ e.key \in DOMAIN mem
        /\ e.val \in (IF kind = "roles" THEN ServerRoles(e.key) ELSE ServerChannels(e.key)))

\* how often list.count(u)
Occurrences(list, u) == Cardinality({i \in 1..Len(list) : list[i] = u})

\* a coroutine created by ensure_future and not yet started
NotStarted(u) == [user |-> u, i |-> 0, n |-> 0]

\* clean_yesterday_bdays: one clean_bday task per entry of the list
CleanYesterdayBdays(list) ==
    LET us == {list[i] : i \in 1..Len(list)}
    IN  [c \in {NotStarted(u) : u \in us} |-> Occurrences(list, c.user)]

\* clean_bday from item i of config["roles"]: the first item at which it
\* awaits remove_roles, or 0 when the loop ends without one
RECURSIVE CleanBdayStop(_, _)
CleanBdayStop(u, i) ==
    IF i > Len(roles) THEN 0
    ELSE IF /\ roles[i].key \in DOMAIN members
            /\ roles[i].val \in ServerRoles(roles[i].key)
            /\ u \in members[roles[i].key]
            /\ <<roles[i].key, u, roles[i].val>> \in held
    THEN i
    ELSE CleanBdayStop(u, i + 1)

\* the loop of handle_bday from item i of config["channels"]: the first item
\* at which it awaits add_roles or send_message, or 0 when the loop ends
RECURSIVE HandleBdayStop(_, _)
HandleBdayStop(u, i) ==
    IF i > Len(channels) THEN 0
    ELSE IF /\ channels[i].key \in DOMAIN members
            /\ u \in members[channels[i].key]
            /\ \/ /\ Get(roles, channels[i].key) # None
                  /\ Get(roles, channels[i].key)[1] \in ServerRoles(channels[i].key)
               \/ channels[i].val \in ServerChannels(channels[i].key)
    THEN i
    ELSE HandleBdayStop(u, i + 1)

\* the role handle_bday grants at item j, or None
RoleAt(j) ==
    LET role_id == Get(roles, channels[j].key)
    IN  IF role_id # None /\ role_id[1] \in ServerRoles(channels[j].key)
        THEN role_id ELSE None

\* handle_bday suspended at item j: in add_roles, or in send_message where no
\* role is granted; ok: the call it awaits will not raise
Suspended(u, j, n, ok) ==
    [user |-> u, i |-> j, n |-> n, server |-> channels[j].key,
     channel |-> channels[j].val,
     pc |-> IF RoleAt(j) # None THEN "add_roles" ELSE "send_message",
     ok |-> ok]

\* the next item at which a loop over a dict of n items stops, j being the
\* one found in the dict as it is: 0 where the iterator raises RuntimeError
\* (the dict changed size) and the task ends
IterNext(items, n, j) == IF Len(items) # n THEN 0 ELSE j

---------------------------------------------------------------------------
(* The daily loop: one iteration of initialise, woken at the next UTC midnight. *)
(* The handle_bday tasks of a pass run while the loop sleeps until the next.    *)

\* how many of the tasks read user u from the Feb-29 bucket
LeapFired(tasks, u) ==
    BagCardinality([t \in {x \in DOMAIN tasks : x.user = u /\ x.bucket = 1155} |-> tasks[t]])

DailyPass ==
    /\ bday_loop = "running"
    /\ pending = EmptyBag
    /\ cleaning = EmptyBag
    /\ handling = EmptyBag
    /\ NextDay(today).year <= LastYear
    /\ LET day     == NextDay(today)
           cleaned == CleanBdays(birthdays, members)
           res     == DoTodayBdays(cleaned, day)
       IN  /\ today' = day
           /\ cleaning' = CleanYesterdayBdays(yesterday)
           /\ yesterday' = <<>>
           /\ savedYesterday' = yesterday'
           /\ birthdays' = cleaned
           /\ channels' = CleanSettings(channels, members, "channels")
           /\ roles' = CleanSettings(roles, members, "roles")
           /\ scheduled' = res.tasks
           /\ pending' = res.tasks
           /\ posted' = EmptyBag
           /\ firedInYear' =
                  [u \in Users |->
                      (IF day.year = today.year THEN firedInYear[u] ELSE 0)
                      + LeapFired(res.tasks, u)]
           /\ bday_loop' = IF res.raised THEN "dead" ELSE "running"
    /\ lastOp' = "daily pass"
    /\ UNCHANGED <<calc, hostVars, members, held, handling, sessVars>>

\* clean_bday starts or resumes, and runs to its next remove_roles or to its
\* end; the role is taken off as the call is made
CleanBday(c) ==
    /\ BagIn(c, cleaning)
    /\ LET n == IF c.i = 0 THEN Len(roles) ELSE c.n
           j == IterNext(roles, n, CleanBdayStop(c.user, IF c.i = 0 THEN 1 ELSE c.i))
           rest == cleaning (-) SetToBag({c})
       IN  /\ held' = IF j = 0 THEN held
                      ELSE held \ {<<roles[j].key, c.user, roles[j].val>>}
           /\ cleaning' = IF j = 0 THEN rest
                          ELSE rest (+) SetToBag({[user |-> c.user, i |-> j + 1, n |-> n]})
    /\ lastOp' = "other"
    /\ UNCHANGED <<calc, hostVars, savedYesterday, calVars, birthdays, members, roles, channels, yesterday,
                   handling, sessVars>>

\* variant of HandleBdayLoop: the tasks of a pass are gathered, so that the
\* exception of one cancels the others
HandleBdayLoopGathered(others, u, i, n, ok) ==
    LET j == IterNext(channels, n, HandleBdayStop(u, i))
    IN  /\ handling' = IF Len(channels) # n THEN EmptyBag
                       ELSE IF j = 0 THEN others
                       ELSE others (+) SetToBag({Suspended(u, j, n, ok)})
        /\ held' = IF j # 0 /\ ok /\ RoleAt(j) # None
                   THEN held \cup {<<channels[j].key, u, RoleAt(j)[1]>>}
                   ELSE held

\* handle_bday runs from item i of the n of its loop to its next await, or to
\* its end: the coroutines suspended and the roles held thereafter
HandleBdayLoop(others, u, i, n, ok) ==
    LET j == IterNext(channels, n, HandleBdayStop(u, i))
    IN  /\ handling' = IF j = 0 THEN others
                       ELSE others (+) SetToBag({Suspended(u, j, n, ok)})
        /\ held' = IF j # 0 /\ ok /\ RoleAt(j) # None
                   THEN held \cup {<<channels[j].key, u, RoleAt(j)[1]>>}
                   ELSE held

\* one handle_bday task starts, after the clean_bday tasks created before it:
\* it builds its message, or raises and ends, and enters its loop
HandleBday ==
    /\ \A c \in DOMAIN cleaning : c.i # 0
    /\ \E t \in DOMAIN pending, ok \in BOOLEAN :
          /\ pending' = pending (-) SetToBag({t})
          /\ posted' = IF Msg(t, today.year) = None THEN posted
                       ELSE posted (+) SetToBag({Msg(t, today.year)[1]})
          /\ IF Msg(t, today.year) = None
             THEN UNCHANGED <<handling, held>>
             ELSE HandleBdayLoop(handling, t.user, 1, Len(channels), ok)
          /\ lastOp' = IF Msg(t, today.year) = None THEN "handle_bday: raised"
                       ELSE "handle_bday"
    /\ UNCHANGED <<calc, hostVars, savedYesterday, today, birthdays, members, scheduled, firedInYear, bday_loop,
                   roles, channels, yesterday, cleaning, sessVars>>

\* variant of HandleBdayResume: the exception of add_roles or send_message is
\* not caught and ends the task
HandleBdayResumeUncaught(h) ==
    /\ BagIn(h, handling)
    /\ yesterday' = IF h.pc = "add_roles" /\ h.ok THEN Append(yesterday, h.user)
                    ELSE yesterday
    /\ IF ~h.ok
       THEN /\ handling' = handling (-) SetToBag({h})
            /\ UNCHANGED held
            /\ lastOp' = "handle_bday: raised"
       ELSE IF h.pc = "add_roles" /\ h.channel \in ServerChannels(h.server)
       THEN /\ \E sent \in BOOLEAN :
                  handling' = (handling (-) SetToBag({h}))
                              (+) SetToBag({[h EXCEPT !.pc = "send_message", !.ok = sent]})
            /\ UNCHANGED held
            /\ lastOp' = "handle_bday"
       ELSE /\ \E ok \in BOOLEAN :
                  HandleBdayLoop(handling (-) SetToBag({h}), h.user, h.i + 1, h.n, ok)
            /\ lastOp' = IF Len(channels) # h.n THEN "handle_bday: raised"
                         ELSE "handle_bday"
    /\ UNCHANGED <<calc, hostVars, savedYesterday, calVars, birthdays, members, roles, channels, cleaning, sessVars>>

\* handle_bday resumes from add_roles (the grant is recorded unless the call
\* raised, then the message is sent if the channel is there) or from
\* send_message (raising or not), and goes on with the next item of its loop
HandleBdayResume(h) ==
    /\ BagIn(h, handling)
    /\ yesterday' = IF h.pc = "add_roles" /\ h.ok THEN Append(yesterday, h.user)
                    ELSE yesterday
    /\ IF h.pc = "add_roles" /\ h.channel \in ServerChannels(h.server)
       THEN /\ \E sent \in BOOLEAN :
                  handling' = (handling (-) SetToBag({h}))
                              (+) SetToBag({[h EXCEPT !.pc = "send_message", !.ok = sent]})
            /\ UNCHANGED held
            /\ lastOp' = "handle_bday"
       ELSE /\ \E ok \in BOOLEAN :
                  HandleBdayLoop(handling (-) SetToBag({h}), h.user, h.i + 1, h.n, ok)
            /\ lastOp' = IF Len(channels) # h.n THEN "handle_bday: raised"
                         ELSE "handle_bday"
    /\ UNCHANGED <<calc, hostVars, savedYesterday, calVars, birthdays, members, roles, channels, cleaning, sessVars>>

---------------------------------------------------------------------------
(* The commands and events of the wizard and of the store *)

NewSession(u) == [starter |-> u, status |-> "waiting for terms confirm", pc |-> "terms"]

\* bday set, up to the send of B_SET_INTRO; it is issued in a served server
\* (message.server.id is read first) where the cog is not disabled.  At most
\* `cap` session objects and suspended calls exist at a time.
BdaySetUpTo(u, cap) ==
    /\ \E s \in DOMAIN members : u \in members[s] /\ ~InList(disable, s)
    /\ GetBdayinputByUser(u) = None
           => Cardinality(DOMAIN sessions) + BagCardinality(setPending) < cap
    /\ setPending' = IF GetBdayinputByUser(u) = None
                      THEN setPending (+) SetToBag({u})
                      ELSE setPending
    /\ lastOp' = "other"
    /\ UNCHANGED <<calc, hostVars, savedYesterday, roleVars, calVars, birthdays, members, sessions, bdayinputsesh, writebday, inputEnd>>

\* bday set, with the bound of the wizard's specification
BdaySet(u) == BdaySetUpTo(u, MaxSessions)

\* bday set, after the send: the session is created and appended, and
\* confirmtheterms starts polling
BdaySetAppend(u) ==
    /\ BagIn(u, setPending)
    /\ setPending' = setPending (-) SetToBag({u})
    /\ sessions' = [id \in (DOMAIN sessions) \cup {FreshId} |->
                       IF id = FreshId THEN NewSession(u) ELSE sessions[id]]
    /\ bdayinputsesh' = Append(bdayinputsesh, FreshId)
    /\ lastOp' = "other"
    /\ UNCHANGED <<calc, hostVars, savedYesterday, roleVars, calVars, birthdays, members, writebday, inputEnd>>

\* on_message -> check_answer of the user's first session
OnMessage(u, c) ==
    /\ GetBdayinputByUser(u) # None
    /\ LET id == GetBdayinputByUser(u)[1]
           st == sessions[id].status
       IN  IF st = "waiting for terms confirm"
           THEN /\ sessions' = IF c.kind = "yes" THEN SetStatus(id, "confirmed terms")
                               ELSE IF c.kind = "no" THEN SetStatus(id, "abort")
                               ELSE sessions
                /\ UNCHANGED <<writebday, inputEnd>>
                /\ lastOp' = "other"
           ELSE IF st = "waiting for birthday"
           THEN /\ sessions' = IF CheckEntry(c) = "sent" THEN SetStatus(id, "bdayreceived")
                               ELSE sessions
                /\ writebday' = IF CheckEntry(c) = "sent"
                                 THEN writebday \cup {[id |-> id, user |-> u, m |-> c.m,
                                                       d |-> c.d, year |-> c.year]}
                                 ELSE writebday
                /\ UNCHANGED inputEnd
                /\ lastOp' = IF CheckEntry(c) = "not a leap year" THEN "not a leap year" ELSE "other"
           ELSE /\ sessions' = SetStatus(id, "stop")
                /\ inputEnd' = inputEnd \cup {id}
                /\ UNCHANGED writebday
                /\ lastOp' = "other"
    /\ UNCHANGED <<calc, hostVars, savedYesterday, roleVars, calVars, birthdays, members, bdayinputsesh, setPending>>

\* on_writebday
OnWritebday(e) ==
    /\ e \in writebday
    /\ writebday' = writebday \ {e}
    /\ birthdays' = SetBday(RemoveUserBday(birthdays, e.user),
                            Toordinal(ParseDate(e.m, e.d)[1]), e.user, e.year)
    /\ inputEnd' = inputEnd \cup {e.id}
    /\ lastOp' = "on_writebday"
    /\ savedYesterday' = yesterday
    /\ UNCHANGED <<calc, hostVars, roleVars, calVars, members, sessions, bdayinputsesh, setPending>>

\* on_input_end
OnInputEnd(id) ==
    /\ id \in inputEnd
    /\ inputEnd' = inputEnd \ {id}
    /\ bdayinputsesh' = IF InList(bdayinputsesh, id) THEN ListRemove(bdayinputsesh, id)
                         ELSE bdayinputsesh
    /\ sessions' = Collect(sessions, bdayinputsesh', writebday, inputEnd')
    /\ lastOp' = "on_input_end"
    /\ UNCHANGED <<calc, hostVars, savedYesterday, roleVars, calVars, birthdays, members, setPending, writebday>>

\* variant of PollTerms: any answer lets the session go on to the birthday
PollTermsAnyAnswer(id) ==
    /\ sessions[id].pc = "terms"
    /\ sessions[id].status # "waiting for terms confirm"
    /\ sessions' = [sessions EXCEPT ![id].status = "waiting for birthday",
                                    ![id].pc = "birthday"]
    /\ lastOp' = "other"
    /\ UNCHANGED <<calc, hostVars, savedYesterday, roleVars, calVars, birthdays, members, bdayinputsesh, setPending, writebday, inputEnd>>

\* confirmtheterms leaves its first loop: the status is no longer the one it waits on
PollTerms(id) ==
    /\ sessions[id].pc = "terms"
    /\ sessions[id].status # "waiting for terms confirm"
    /\ sessions' = IF sessions[id].status = "confirmed terms"
                   THEN [sessions EXCEPT ![id].status = "waiting for birthday",
                                         ![id].pc = "birthday"]
                   ELSE [sessions EXCEPT ![id].pc = "aborting"]
    /\ lastOp' = "other"
    /\ UNCHANGED <<calc, hostVars, savedYesterday, roleVars, calVars, birthdays, members, bdayinputsesh, setPending, writebday, inputEnd>>

\* 45 s without an answer: the cancellation is being said
TimeoutTerms(id) ==
    /\ sessions[id].pc = "terms"
    /\ sessions[id].status = "waiting for terms confirm"
    /\ sessions' = [sessions EXCEPT ![id].pc = "terms timeout"]
    /\ lastOp' = "other"
    /\ UNCHANGED <<calc, hostVars, savedYesterday, roleVars, calVars, birthdays, members, bdayinputsesh, setPending, writebday, inputEnd>>

\* confirmtheterms leaves its second loop and returns
PollBirthday(id) ==
    /\ sessions[id].pc = "birthday"
    /\ sessions[id].status # "waiting for birthday"
    /\ sessions' = Collect([sessions EXCEPT ![id].pc = "returned"],
                           bdayinputsesh, writebday, inputEnd)
    /\ lastOp' = "other"
    /\ UNCHANGED <<calc, hostVars, savedYesterday, roleVars, calVars, birthdays, members, bdayinputsesh, setPending, writebday, inputEnd>>

\* 90 s without a valid entry: the cancellation is being said
TimeoutBirthday(id) ==
    /\ sessions[id].pc = "birthday"
    /\ sessions[id].status = "waiting for birthday"
    /\ sessions' = [sessions EXCEPT ![id].pc = "birthday timeout"]
    /\ lastOp' = "other"
    /\ UNCHANGED <<calc, hostVars, savedYesterday, roleVars, calVars, birthdays, members, bdayinputsesh, setPending, writebday, inputEnd>>

\* variant: the status is set and no "input_end" is dispatched
StopBdayinputSilent(id) ==
    /\ sessions[id].pc \in {"terms timeout", "birthday timeout", "aborting"}
    /\ sessions' = [sessions EXCEPT ![id].status = "stop", ![id].pc = "returned"]
    /\ lastOp' = "other"
    /\ UNCHANGED <<calc, hostVars, savedYesterday, roleVars, calVars, birthdays, members, bdayinputsesh, setPending,
                   writebday, inputEnd>>

\* stop_bdayinput, after the say that precedes it in confirmtheterms
StopBdayinput(id) ==
    /\ sessions[id].pc \in {"terms timeout", "birthday timeout", "aborting"}
    /\ sessions' = [sessions EXCEPT ![id].status = "stop", ![id].pc = "returned"]
    /\ inputEnd' = inputEnd \cup {id}
    /\ lastOp' = "other"
    /\ UNCHANGED <<calc, hostVars, savedYesterday, roleVars, calVars, birthdays, members, bdayinputsesh, setPending, writebday>>

\* what lastOp keeps of a handler that ends with clean_bdays, `before` being
\* the store clean_bdays found
CleanupOps ==
    {"clean_bdays", "clean_bdays: bucket deleted", "clean_bdays: user deleted", "bday_remove",
     "clean_settings: entry deleted"}

CleanupOp(before, after) ==
    IF Registered(after) # Registered(before) THEN "clean_bdays: user deleted"
    ELSE IF DOMAIN after # DOMAIN before THEN "clean_bdays: bucket deleted"
    ELSE "clean_bdays"

\* bday remove: remove_user_bday, then clean_bdays
BdayRemove(u) ==
    /\ birthdays' = CleanBdays(RemoveUserBday(birthdays, u), members)
    /\ lastOp' = IF u \in Registered(birthdays) THEN "bday_remove"
                 ELSE CleanupOp(birthdays, birthdays')
    /\ savedYesterday' = yesterday
    /\ UNCHANGED <<calc, hostVars, roleVars, calVars, members, sessVars>>

\* bday clean
BdayClean ==
    /\ birthdays' = CleanBdays(birthdays, members)
    /\ channels' = CleanSettings(channels, members, "channels")
    /\ roles' = CleanSettings(roles, members, "roles")
    /\ lastOp' = IF roles' # roles \/ channels' # channels
                 THEN "clean_settings: entry deleted"
                 ELSE CleanupOp(birthdays, birthdays')
    /\ savedYesterday' = yesterday
    /\ UNCHANGED <<calc, hostVars, calVars, members, yesterday, held, cleaning, handling, sessVars>>

\* bday list in a direct message: the cleanup, then the reply DmListReply
BdayList(u) ==
    /\ birthdays' = CleanBdays(birthdays, members)
    /\ lastOp' = CleanupOp(birthdays, birthdays')
    /\ savedYesterday' = yesterday
    /\ UNCHANGED <<calc, hostVars, roleVars, calVars, members, sessVars>>

\* the host: the bot is removed from a server, whose members it no longer resolves
ServerRemoved(s) ==
    /\ s \in DOMAIN members
    /\ members' = [t \in (DOMAIN members) \ {s} |-> members[t]]
    /\ lastOp' = "other"
    /\ UNCHANGED <<calc, hostVars, savedYesterday, roleVars, calVars, birthdays, sessVars>>

\* The tasks a pass creates with ensure_future are started, in the order of
\* their creation, before the event loop handles a message received later.
TasksStarted == pending = EmptyBag /\ \A c \in DOMAIN cleaning : c.i # 0

\* bday role, in a served server (no_pm) where the cog is not disabled
BdayRole(s, r) ==
    /\ TasksStarted
    /\ s \in DOMAIN members
    /\ r \in ServerRoles(s)
    /\ ~InList(disable, s)
    /\ roles' = SetItem(roles, s, r)
    /\ lastOp' = "other"
    /\ savedYesterday' = yesterday
    /\ UNCHANGED <<calc, hostVars, calVars, birthdays, members, channels, yesterday, held,
                   cleaning, handling, sessVars>>

\* bday remrole: remove_setting, then clean_settings
BdayRemrole(s) ==
    /\ TasksStarted
    /\ s \in DOMAIN members
    /\ roles' = CleanSettings(RemoveSetting(roles, s), members, "roles")
    /\ channels' = CleanSettings(channels, members, "channels")
    /\ lastOp' = "other"
    /\ savedYesterday' = yesterday
    /\ UNCHANGED <<calc, hostVars, calVars, birthdays, members, yesterday, held, cleaning,
                   handling, sessVars>>

\* bday channel, for a text channel of a served server where the cog is not
\* disabled
BdayChannel(s, c) ==
    /\ TasksStarted
    /\ s \in DOMAIN members
    /\ c \in ServerChannels(s)
    /\ ~InList(disable, s)
    /\ channels' = SetItem(channels, s, c)
    /\ lastOp' = "other"
    /\ savedYesterday' = yesterday
    /\ UNCHANGED <<calc, hostVars, calVars, birthdays, members, roles, yesterday, held,
                   cleaning, handling, sessVars>>

\* bday remchannel: remove_setting, then clean_settings
BdayRemchannel(s) ==
    /\ TasksStarted
    /\ s \in DOMAIN members
    /\ channels' = CleanSettings(RemoveSetting(channels, s), members, "channels")
    /\ roles' = CleanSettings(roles, members, "roles")
    /\ lastOp' = "other"
    /\ savedYesterday' = yesterday
    /\ UNCHANGED <<calc, hostVars, calVars, birthdays, members, yesterday, held, cleaning,
                   handling, sessVars>>

\* bday disable, in a served server not on the list
BdayDisable(s) ==
    /\ TasksStarted
    /\ s \in DOMAIN members
    /\ ~InList(disable, s)
    /\ disable' = Append(disable, s)
    /\ savedYesterday' = yesterday
    /\ lastOp' = "other"
    /\ UNCHANGED <<calc, serverItems, roleVars, calVars, birthdays, members, sessVars>>

\* bday enable, in a served server on the list
BdayEnable(s) ==
    /\ TasksStarted
    /\ s \in DOMAIN members
    /\ InList(disable, s)
    /\ disable' = ListRemove(disable, s)
    /\ savedYesterday' = yesterday
    /\ lastOp' = "other"
    /\ UNCHANGED <<calc, serverItems, roleVars, calVars, birthdays, members, sessVars>>

\* the host: a role or a channel of a server is deleted; the members who held
\* the role hold it no longer
ItemDeleted(s, x) ==
    /\ TasksStarted
    /\ <<s, x>> \in serverItems
    /\ serverItems' = serverItems \ {<<s, x>>}
    /\ held' = {g \in held : ~(g[1] = s /\ g[3] = x)}
    /\ lastOp' = "other"
    /\ UNCHANGED <<calc, disable, savedYesterday, calVars, birthdays, members, roles,
                   channels, yesterday, cleaning, handling, sessVars>>

---------------------------------------------------------------------------
(* Specifications *)

\* every server has every role and every channel
AllItems == (Servers \X RoleIds) \cup (Servers \X ChannelIds)

NoSessions ==
    /\ sessions = EmptyDict
    /\ bdayinputsesh = <<>>
    /\ setPending = EmptyBag
    /\ writebday = {}
    /\ inputEnd = {}

\* the default configuration of the settings, no task and no role granted
NoSettings ==
    /\ roles = <<>>
    /\ channels = <<>>
    /\ yesterday = <<>>
    /\ held = {}
    /\ cleaning = EmptyBag
    /\ handling = EmptyBag
    /\ disable = <<>>
    /\ serverItems = AllItems
    /\ savedYesterday = <<>>
    /\ calc = None

IdleLoop ==
    /\ scheduled = EmptyBag
    /\ pending = EmptyBag
    /\ posted = EmptyBag
    /\ firedInYear = [u \in Users |-> 0]
    /\ bday_loop = "running"

\* a store a run of the wizard leaves: each user in at most one bucket, a
\* Feb-29 record with no year or a leap year
StoredYears(k) == IF k = 1155 THEN {None, Some(2000)} ELSE {None, Some(2001)}
Placements ==
    {None} \cup {Some([key |-> k, year |-> y]) :
                    k \in {1154, 1155, 1156}, y \in {None, Some(2000), Some(2001)}}
StoreOf(pl) ==
    [k \in {pl[u][1].key : u \in {v \in Users : pl[v] # None}} |->
        [u \in {v \in Users : pl[v] # None /\ pl[v][1].key = k} |-> pl[u][1].year]]
InitStores ==
    {StoreOf(pl) : pl \in {f \in [Users -> Placements] :
        \A u \in Users : f[u] # None => f[u][1].year \in StoredYears(f[u][1].key)}}

\* the daily loop alone, from the last day of the year before FirstYear
InitDaily ==
    /\ today = Date(FirstYear - 1, 12, 31)
    /\ birthdays \in InitStores
    /\ members \in {[s \in Servers |-> IF s = "s1" THEN U ELSE {}] : U \in SUBSET Users}
    /\ IdleLoop
    /\ NoSessions
    /\ NoSettings
    /\ lastOp = "init"

NextDaily == DailyPass \/ HandleBday

SpecDaily == InitDaily /\ [][NextDaily]_vars

\* the wizard, the store commands and the host, from the default configuration
Init ==
    /\ today = Date(FirstYear, 1, 1)
    /\ birthdays = EmptyDict
    /\ members = [s \in Servers |-> IF s = "s1" THEN Users ELSE {"u1"}]
    /\ IdleLoop
    /\ NoSessions
    /\ NoSettings
    /\ lastOp = "init"

Next ==
    \/ \E u \in Users : BdaySet(u)
    \/ \E u \in Users : BdaySetAppend(u)
    \/ \E u \in Users, c \in Contents : OnMessage(u, c)
    \/ \E e \in writebday : OnWritebday(e)
    \/ \E id \in inputEnd : OnInputEnd(id)
    \/ \E id \in DOMAIN sessions : PollTerms(id)
    \/ \E id \in DOMAIN sessions : TimeoutTerms(id)
    \/ \E id \in DOMAIN sessions : PollBirthday(id)
    \/ \E id \in DOMAIN sessions : TimeoutBirthday(id)
    \/ \E id \in DOMAIN sessions : StopBdayinput(id)
    \/ \E u \in Users : BdayRemove(u)
    \/ \E u \in Users : BdayList(u)
    \/ BdayClean
    \/ \E s \in Servers : ServerRemoved(s)

Spec == Init /\ [][Next]_vars

\* The daily loop with the settings and the roles, over the last days of
\* LastYear.  It starts on Dec 29, after the tasks of that day's pass: u1, whose
\* birthday was stored as Dec 29, holds the role in the servers of `granted`
\* and is on the list once for each, and has since entered Dec 30 or Dec 31
\* as the birthday; u2 has entered nothing.
RoleStores ==
    {StoreOf([u \in Users |-> IF u = "u1" THEN Some([key |-> k, year |-> None]) ELSE None]) :
        k \in {1460, 1461}}

InitRoles ==
    /\ today = Date(LastYear, 12, 29)
    /\ birthdays \in RoleStores
    /\ members = [s \in Servers |-> IF s = "s1" THEN Users ELSE {"u1"}]
    /\ roles = <<Item("s1", "r1"), Item("s2", "r1")>>
    /\ channels = <<Item("s1", "c1"), Item("s2", "c1")>>
    /\ \E granted \in SUBSET Servers :
          /\ held = {<<s, "u1", "r1">> : s \in granted}
          /\ yesterday = [i \in 1..Cardinality(granted) |-> "u1"]
    /\ savedYesterday = yesterday
    /\ disable = <<>>
    /\ serverItems = AllItems
    /\ cleaning = EmptyBag
    /\ handling = EmptyBag
    /\ calc = None
    /\ IdleLoop
    /\ NoSessions
    /\ lastOp = "init"

NextRoles ==
    \/ DailyPass
    \/ HandleBday
    \/ \E h \in DOMAIN handling : HandleBdayResume(h)
    \/ \E c \in DOMAIN cleaning : CleanBday(c)
    \/ \E s \in Servers, r \in RoleIds : BdayRole(s, r)
    \/ \E s \in Servers : BdayRemrole(s)
    \/ \E s \in Servers, c \in ChannelIds : BdayChannel(s, c)
    \/ \E s \in Servers : BdayRemchannel(s)

SpecRoles == InitRoles /\ [][NextRoles]_vars

\* The dispatch of the daily loop with the disable list, over the last days
\* of LastYear: both servers have the role r1 and the channel c1 configured,
\* u1 has entered Dec 30 as the birthday and u2 Dec 30 or Dec 31, no role is
\* held.  A channel setting may be removed while the tasks run.
DispatchStores ==
    {StoreOf([u \in Users |-> Some([key |-> IF u = "u1" THEN 1460 ELSE k, year |-> None])]) :
        k \in {1460, 1461}}

InitDispatch ==
    /\ today = Date(LastYear, 12, 29)
    /\ birthdays \in DispatchStores
    /\ members = [s \in Servers |-> IF s = "s1" THEN Users ELSE {"u1"}]
    /\ roles = <<Item("s1", "r1"), Item("s2", "r1")>>
    /\ channels = <<Item("s1", "c1"), Item("s2", "c1")>>
    /\ yesterday = <<>>
    /\ savedYesterday = <<>>
    /\ held = {}
    /\ disable = <<>>
    /\ serverItems = AllItems
    /\ cleaning = EmptyBag
    /\ handling = EmptyBag
    /\ calc = None
    /\ IdleLoop
    /\ NoSessions
    /\ lastOp = "init"

NextDispatch ==
    \/ DailyPass
    \/ HandleBday
    \/ \E h \in DOMAIN handling : HandleBdayResume(h)
    \/ \E c \in DOMAIN cleaning : CleanBday(c)
    \/ \E s \in Servers : BdayDisable(s)
    \/ \E s \in Servers : BdayEnable(s)
    \/ \E s \in Servers : BdayRemchannel(s)

SpecDispatch == InitDispatch /\ [][NextDispatch]_vars

\* The settings commands, the clean command and the host, from the default
\* configuration: servers are left, roles and channels are deleted.
InitSettings ==
    /\ today = Date(FirstYear, 1, 1)
    /\ birthdays = EmptyDict
    /\ members = [s \in Servers |-> IF s = "s1" THEN Users ELSE {"u1"}]
    /\ IdleLoop
    /\ NoSessions
    /\ NoSettings
    /\ lastOp = "init"

NextSettings ==
    \/ \E s \in Servers, r \in RoleIds : BdayRole(s, r)
    \/ \E s \in Servers : BdayRemrole(s)
    \/ \E s \in Servers, c \in ChannelIds : BdayChannel(s, c)
    \/ \E s \in Servers : BdayRemchannel(s)
    \/ BdayClean
    \/ \E s \in Servers : ServerRemoved(s)
    \/ \E s \in Servers, x \in RoleIds \cup ChannelIds : ItemDeleted(s, x)

SpecSettings == InitSettings /\ [][NextSettings]_vars

\* calcLeapAge alone: a call with an integer year of birth, on a day of any
\* of the years LeapAgeYears
LeapAgeYears == LeapAgeFirstYear..(LeapAgeFirstYear + LeapAgeNumYears - 1)
BirthYears == {1996, 2000, 2001, 2096}

CalcLeapAge(year) ==
    /\ calc' = Some(calcLeapAge(year, today.year))
    /\ lastOp' = "calcLeapAge"
    /\ UNCHANGED <<hostVars, savedYesterday, calVars, birthdays, members, sessVars, roleVars>>

InitLeapAge ==
    /\ today \in {Date(y, 2, 28) : y \in LeapAgeYears}
    /\ birthdays = EmptyDict
    /\ members = [s \in Servers |-> Users]
    /\ IdleLoop
    /\ NoSessions
    /\ NoSettings
    /\ lastOp = "init"

NextLeapAge == \E year \in BirthYears : CalcLeapAge(year)

SpecLeapAge == InitLeapAge /\ [][NextLeapAge]_vars

\* the wizard alone, with room for two calls of bday set at a time
RaceContents ==
    {c \in Contents : c.kind # "date" \/ <<c.m, c.d, c.year>> \in {<<2, 29, None>>, <<2, 30, None>>}}

NextRace ==
    \/ \E u \in Users : BdaySetUpTo(u, MaxRacing)
    \/ \E u \in Users : BdaySetAppend(u)
    \/ \E u \in Users, c \in RaceContents : OnMessage(u, c)
    \/ \E e \in writebday : OnWritebday(e)
    \/ \E id \in inputEnd : OnInputEnd(id)
    \/ \E id \in DOMAIN sessions : PollTerms(id)
    \/ \E id \in DOMAIN sessions : TimeoutTerms(id)
    \/ \E id \in DOMAIN sessions : PollBirthday(id)
    \/ \E id \in DOMAIN sessions : TimeoutBirthday(id)
    \/ \E id \in DOMAIN sessions : StopBdayinput(id)

SpecRace == Init /\ [][NextRace]_vars

\* The scheduling of the host: the event loop resumes every coroutine that can
\* go on (a send that returns, a sleep of the polling loop that ends, the
\* clock reaching the 45 s or the 90 s) and runs the handler of every
\* dispatched event.  Nothing makes a user issue a command or write a message.
SessionIds == 1..MaxRacing

WizardFairness ==
    /\ \A u \in Users : WF_vars(BdaySetAppend(u))
    /\ \A id \in SessionIds :
          /\ WF_vars(id \in DOMAIN sessions /\ PollTerms(id))
          /\ WF_vars(id \in DOMAIN sessions /\ TimeoutTerms(id))
          /\ WF_vars(id \in DOMAIN sessions /\ PollBirthday(id))
          /\ WF_vars(id \in DOMAIN sessions /\ TimeoutBirthday(id))
          /\ WF_vars(id \in DOMAIN sessions /\ StopBdayinput(id))
          /\ WF_vars(\E e \in writebday : e.id = id /\ OnWritebday(e))
          /\ WF_vars(OnInputEnd(id))

SpecRaceFair == Init /\ [][NextRace]_vars /\ WizardFairness

---------------------------------------------------------------------------
(* Properties of the daily pass, under SpecDaily.  `scheduled` holds the calls *)
(* of the latest pass, made on the date `today` over the store `birthdays`.    *)

IsFeb(d) == today.month = 2 /\ today.day = d

\* every user of bucket k was handed to handle_bday by the latest pass
Triggered(k) ==
    \A u \in DOMAIN Bucket(birthdays, k) :
        \E t \in DOMAIN scheduled : t.user = u /\ t.bucket = k

\* the number of handle_bday calls the latest pass made for user u
CallsFor(u) ==
    BagCardinality([t \in {x \in DOMAIN scheduled : x.user = u} |-> scheduled[t]])

\* C1: on Feb 28 of a non-leap year the pass triggers the Feb-28 bucket and the
\* Feb-29 bucket (key 1155); on Feb 28 of a leap year only the Feb-28 bucket.
C1_Feb28Triggers ==
    IsFeb(28) =>
        IF IsLeap(today.year)
        THEN Triggered(1154) /\ \A t \in DOMAIN scheduled : t.bucket = 1154
        ELSE Triggered(1154) /\ Triggered(1155)

\* C2: at the end of a real year covered by daily passes, every record of the
\* Feb-29 bucket has been triggered exactly once in that year.
C2_LeapRecordOncePerYear ==
    (today.month = 12 /\ today.day = 31 /\ today.year >= FirstYear) =>
        \A u \in DOMAIN Bucket(birthdays, 1155) : firedInYear[u] = 1

\* C3: on Feb 29 the pass triggers the Feb-29 bucket only, each of its users
\* exactly once.
C3_Feb29TriggersLeapBucketOnce ==
    IsFeb(29) =>
        /\ \A t \in DOMAIN scheduled : t.bucket = 1155
        /\ \A u \in Users :
              CallsFor(u) = IF u \in DOMAIN Bucket(birthdays, 1155) THEN 1 ELSE 0

C3_Witness ==
    /\ IsFeb(29)
    /\ lastOp = "daily pass"
    /\ "u1" \in DOMAIN Bucket(birthdays, 1155)
    /\ "u2" \in DOMAIN Bucket(birthdays, 1154)
    /\ CallsFor("u1") = 1

C5_FlagMatchesCase ==
    \A t \in DOMAIN scheduled :
        t.flag = IF t.bucket # 1155 THEN 1 ELSE IF IsFeb(29) THEN 3 ELSE 2

---------------------------------------------------------------------------
(* Properties of the store and of the wizard, under Spec *)

NoEmptyBucket == \A k \in DOMAIN birthdays : DOMAIN birthdays[k] # {}

BucketsOf(u) == {k \in DOMAIN birthdays : u \in DOMAIN birthdays[k]}

\* C6 as claimed: in every state between handlers no bucket of the store is an
\* empty mapping.
C6_NoEmptyBucketEver == NoEmptyBucket

\* C6 as amended: after a handler that ends with clean_bdays (the remove
\* command, the clean command, the list command) no bucket is empty.
C6_NoEmptyBucketAfterCleanup ==
    (lastOp \in CleanupOps) => NoEmptyBucket

\* a cleanup deleted a bucket and left the record of u1
C6_Witness ==
    /\ lastOp = "clean_bdays: bucket deleted"
    /\ Registered(birthdays) = {"u1"}

\* C7: each user id appears in at most one bucket of the store.
C7_OneRecordPerUser == \A u \in Users : Cardinality(BucketsOf(u)) <= 1

\* a second set by u1 on another date: the bucket of the first is left empty
C7_Witness ==
    /\ lastOp = "on_writebday"
    /\ Registered(birthdays) = {"u1"}
    /\ BucketsOf("u1") = {1155}
    /\ 1154 \in DOMAIN birthdays

\* C8: right after on_writebday stores the entry M-D[,Y] of a user, the user is
\* in a bucket whose key reads back as M and D (the Feb-29 entry in bucket
\* 1155), with the year entered, and the list command run next by that user,
\* still a member of a served server, replies that one line.
C8_RoundTrip ==
    [][\A e \in writebday :
          OnWritebday(e) =>
             /\ BucketsOf(e.user)' # {}
             /\ \A k \in BucketsOf(e.user)' :
                   /\ birthdays'[k][e.user] = e.year
                   /\ (e.m = 2 /\ e.d = 29) => k = 1155
             /\ DmListReply(birthdays', e.user)
                   = {[month |-> e.m, day |-> e.d, year |-> e.year]}
             /\ Resolvable(members', e.user) =>
                   DmListReply(CleanBdays(birthdays', members'), e.user)
                      = {[month |-> e.m, day |-> e.d, year |-> e.year]}]_vars

C8_Witness ==
    /\ lastOp = "on_writebday"
    /\ "u1" \in DOMAIN Bucket(birthdays, 1155)
    /\ birthdays[1155]["u1"] = Some(2004)
    /\ "u2" \in DOMAIN Bucket(birthdays, 1154)
    /\ birthdays[1154]["u2"] = Some(9999)

\* C14: after clean_bdays every remaining record is one the store held, of a
\* user who is a member of a served server; every bucket none of whose users
\* is such a member any more is deleted; no empty bucket remains; and no
\* record of a user who is such a member is dropped.
C14_CleanupKeepsMembersOnly ==
    [][(lastOp' \in CleanupOps) =>
          /\ \A k \in DOMAIN birthdays' : \A u \in DOMAIN birthdays'[k] :
                /\ Resolvable(members', u)
                /\ k \in DOMAIN birthdays
                /\ u \in DOMAIN birthdays[k]
                /\ birthdays'[k][u] = birthdays[k][u]
          /\ \A k \in DOMAIN birthdays :
                (\A u \in DOMAIN birthdays[k] : ~Resolvable(members, u))
                    => k \notin DOMAIN birthdays'
          /\ \A k \in DOMAIN birthdays' : DOMAIN birthdays'[k] # {}
          /\ (BdayClean \/ \E u \in Users : BdayList(u)) =>
                \A k \in DOMAIN birthdays : \A u \in DOMAIN birthdays[k] :
                    Resolvable(members, u) => u \in DOMAIN Bucket(birthdays', k)]_vars

\* a cleanup deleted the record of u2, who is in no served server any more,
\* with the bucket, and kept the record of u1
C14_Witness ==
    /\ lastOp = "clean_bdays: user deleted"
    /\ ~Resolvable(members, "u2")
    /\ Registered(birthdays) = {"u1"}
    /\ Cardinality(DOMAIN birthdays) = 1

\* C9: a year outside -9999..9999 is rejected, so no stored year is outside it.
C9_StoredYearInRange ==
    \A k \in DOMAIN birthdays : \A u \in DOMAIN birthdays[k] :
        birthdays[k][u] # None => birthdays[k][u][1] \in (0 - 9999)..9999

\* C10: an entry of Feb 29 with a year that is not a leap year is never handed
\* on, so no record of the Feb-29 bucket carries a non-leap year.
C10_LeapBucketHasLeapYears ==
    /\ \A e \in writebday :
          (e.m = 2 /\ e.d = 29 /\ e.year # None) => IsLeap(e.year[1])
    /\ \A u \in DOMAIN Bucket(birthdays, 1155) :
          birthdays[1155][u] # None => IsLeap(birthdays[1155][u][1])

\* the entry 2-29,2001 was answered "not a leap year", beside a stored leap year
C10_Witness ==
    /\ lastOp = "not a leap year"
    /\ "u2" \in DOMAIN Bucket(birthdays, 1155)
    /\ birthdays[1155]["u2"] = Some(2004)
    /\ writebday = {}

---------------------------------------------------------------------------
(* Properties of the input sessions, under SpecRace and SpecRaceFair *)

\* the sessions of the list started by user u
SessionsOf(u) == {i \in 1..Len(bdayinputsesh) : sessions[bdayinputsesh[i]].starter = u}

\* C11: at every moment the session list holds at most one session per user,
\* under any interleaving of the set commands and the message handlers.
C11_OneSessionPerUser == \A u \in Users : Cardinality(SessionsOf(u)) <= 1

\* C12: a session that ends by the inactivity timeout writes no record: no
\* on_writebday runs for a session whose confirmtheterms has reached the 45 s
\* or the 90 s and is saying the cancellation.
C12_TimedOutSessionWritesNothing ==
    [][\A e \in writebday :
          OnWritebday(e) =>
             sessions[e.id].pc \notin {"terms timeout", "birthday timeout"}]_vars

---------------------------------------------------------------------------
(* Properties of the leap age, under SpecLeapAge.  `calc` holds the latest   *)
(* call: its arguments, the years lower and upper it found, and its result. *)

Called == calc # None
TheCall == calc[1]

\* the first leap year after y
NextLeapAfter(y) == CHOOSE z \in (y + 1)..(y + 8) : IsLeap(z) /\ \A w \in (y + 1)..(z - 1) : ~IsLeap(w)

\* C15: for a fixed year of birth calcLeapAge does not decrease as the current
\* year increases, and from one leap year to the next it increases by exactly 1.
C15_LeapAgeMonotone ==
    Called =>
        /\ TheCall.age # None
        /\ \A y \in LeapAgeYears :
              y >= TheCall.this_year =>
                 /\ calcLeapAge(TheCall.year, y).age # None
                 /\ Leq(TheCall.age[1], calcLeapAge(TheCall.year, y).age[1])
        /\ IsLeap(TheCall.this_year) =>
              LET next == calcLeapAge(TheCall.year, NextLeapAfter(TheCall.this_year)).age
              IN  /\ next # None
                  /\ next[1].num * TheCall.age[1].den
                        = (TheCall.age[1].num + TheCall.age[1].den) * next[1].den

\* a call in the leap year 2096 for the year of birth 2001: the next leap year is 2104
C15_Witness ==
    /\ Called
    /\ TheCall.year = 2001
    /\ TheCall.this_year = 2096
    /\ IsWhole(TheCall.age[1], 24)
    /\ IsWhole(calcLeapAge(2001, 2104).age[1], 25)

\* C16: whenever the current year is a leap year calcLeapAge returns a whole
\* number, and for the year of birth 2000 in 2024 it returns 6.
C16_WholeInLeapYear ==
    Called =>
        /\ IsLeap(TheCall.this_year) =>
              /\ TheCall.age # None
              /\ TheCall.age[1].num % TheCall.age[1].den = 0
        /\ (TheCall.year = 2000 /\ TheCall.this_year = 2024) =>
              /\ TheCall.age # None
              /\ IsWhole(TheCall.age[1], 6)

C16_Witness ==
    /\ Called
    /\ TheCall.year = 2000
    /\ TheCall.this_year = 2024
    /\ TheCall.age = Some(Quotient(24, 4))

\* C17 as claimed: lower is the nearest leap year less than or equal to the
\* current year, so in a leap year lower is the current year and the fraction
\* (this_year - lower) / (upper - lower) is 0.
C17_LowerIsCurrentLeapYear ==
    (Called /\ IsLeap(TheCall.this_year)) =>
        /\ TheCall.lower = Some(TheCall.this_year)
        /\ TheCall.upper # None
        /\ TheCall.this_year - TheCall.lower[1] = 0

\* C17 as amended: lower is the nearest leap year strictly before the current
\* year and upper the next leap year after lower, so the fraction is never 0;
\* in a leap year upper is the current year and the fraction is 1.
C17_LowerIsBeforeCurrentYear ==
    Called =>
        /\ TheCall.lower # None
        /\ TheCall.upper # None
        /\ IsLeap(TheCall.lower[1])
        /\ TheCall.lower[1] < TheCall.this_year
        /\ \A y \in (TheCall.lower[1] + 1)..(TheCall.this_year - 1) : ~IsLeap(y)
        /\ TheCall.upper[1] = NextLeapAfter(TheCall.lower[1])
        /\ TheCall.this_year - TheCall.lower[1] > 0
        /\ IsLeap(TheCall.this_year) =>
              /\ TheCall.upper[1] = TheCall.this_year
              /\ TheCall.this_year - TheCall.lower[1] = TheCall.upper[1] - TheCall.lower[1]

\* a call in the leap year 2104: lower is 2096, eight years before
C17_Witness ==
    /\ Called
    /\ TheCall.this_year = 2104
    /\ TheCall.lower = Some(2096)
    /\ TheCall.upper = Some(2104)

\* C18: for every current year both loops of foundLeap end and upper is
\* strictly greater than lower, so the division does not raise.
C18_UpperAboveLower ==
    Called =>
        /\ TheCall.lower # None
        /\ TheCall.upper # None
        /\ TheCall.upper[1] > TheCall.lower[1]
        /\ TheCall.age # None

\* a call in 2097, between the leap years 2096 and 2104
C18_Witness ==
    /\ Called
    /\ TheCall.this_year = 2097
    /\ TheCall.lower = Some(2096)
    /\ TheCall.upper = Some(2104)
    /\ TheCall.age # None
    /\ TheCall.age[1].den = 8

---------------------------------------------------------------------------
(* Properties of the birthday role, under SpecRoles *)

\* the birthday roles member u holds, by server
HeldRoles(u) == {sr \in Servers \X RoleIds : <<sr[1], u, sr[2]>> \in held}

\* no task of the latest pass is left
Quiet == pending = EmptyBag /\ cleaning = EmptyBag /\ handling = EmptyBag

\* C19: every grant is on the list and is revoked by the next pass, also when
\* the role or channel setting was changed or removed in between: once the
\* tasks of a pass are done, each birthday role a member holds is one granted
\* since that pass, recorded on the list.
C19_HeldRoleIsOnTheList ==
    Quiet => \A u \in Users : Cardinality(HeldRoles(u)) <= Occurrences(yesterday, u)

\* C20: a grant made since the latest pass, recorded on the list, is not
\* revoked before the next pass: the member holds a role for each entry of
\* the list.
C20_TodaysGrantIsKept ==
    \A u \in Users : Occurrences(yesterday, u) <= Cardinality(HeldRoles(u))

---------------------------------------------------------------------------
(* Properties of the dispatch, under SpecDispatch *)

\* the tasks of user u among the handle_bday tasks not yet run, p, and the
\* suspended ones, h
TasksIn(p, h, u) ==
    <<[t \in {x \in DOMAIN p : x.user = u} |-> p[t]],
      [t \in {x \in DOMAIN h : x.user = u} |-> h[t]]>>

HandleOps == {"handle_bday", "handle_bday: raised"}

\* C21: a failure in the task of one user (the message, the grant or the post
\* raising, the task ending by an exception) leaves the daily loop running,
\* and a step of the task of one user leaves the tasks of every other user of
\* the pass as they were, to run as they would have.
C21_FailureIsContained ==
    [][/\ bday_loop' = "running"
       /\ lastOp' \in HandleOps =>
             \A u \in Users, v \in Users :
                (u # v /\ TasksIn(pending', handling', v) # TasksIn(pending, handling, v))
                    => TasksIn(pending', handling', u) = TasksIn(pending, handling, u)]_vars

\* the task of a user ended by an exception while the task of the other user
\* is suspended in its grant, and the loop is running
C21_Witness ==
    /\ lastOp = "handle_bday: raised"
    /\ bday_loop = "running"
    /\ \E h \in DOMAIN handling : h.pc = "add_roles"
    /\ Cardinality({h.user : h \in DOMAIN handling}) = 1
    /\ Occurrences(yesterday, "u1") + Occurrences(yesterday, "u2") = 1

\* C22: a pass runs to completion before the loop sleeps again: the dispatch
\* of the day, the recording of the grants on the list included, has happened
\* when the pass saves the configuration, so the list in the file is the list
\* in memory at all times.
C22_GrantsSavedByThePass == savedYesterday = yesterday

\* C23: while a server is on the disable list, no handle_bday task grants a
\* role in it or sends an announcement to its channel, whatever role and
\* channel were configured for it before.
C23_NothingDoneWhereDisabled ==
    [][\A s \in Servers : (InList(disable, s) /\ lastOp' \in HandleOps) =>
          /\ \A g \in held' : g[1] = s => g \in held
          /\ \A h \in DOMAIN handling' :
                h.server = s => CopiesIn(h, handling') <= CopiesIn(h, handling)]_vars

\* the task of h is suspended, after the step, at one of the items lo..hi of
\* its loop, in the call pc where pc is given
GoesOn(h, lo, hi, pc) ==
    \E g \in DOMAIN handling' :
        /\ g.user = h.user
        /\ g.i \in lo..hi
        /\ pc # None => g.pc = pc[1]
        /\ CopiesIn(g, handling') > CopiesIn(g, handling)

\* C26: when add_roles or send_message raises for one server, handle_bday
\* goes on: the failed grant is not put on the list, the announcement is
\* still sent to the channel of that server where it has one, and, unless
\* the dict of the channels changed size meanwhile, the task reaches the later
\* entries of the dict at which it has a role to grant or a message to send.
C26_FailedCallIsSwallowed ==
    [][\A h \in DOMAIN handling : (HandleBdayResume(h) /\ ~h.ok) =>
          /\ h.pc = "add_roles" =>
                /\ yesterday' = yesterday
                /\ h.channel \in ServerChannels(h.server)
                      => GoesOn(h, h.i, h.i, Some("send_message"))
          /\ (/\ h.pc = "send_message" \/ h.channel \notin ServerChannels(h.server)
              /\ Len(channels) = h.n) =>
                /\ lastOp' = "handle_bday"
                /\ \A k \in (h.i + 1)..Len(channels) :
                      (/\ channels[k].key \in DOMAIN members
                       /\ h.user \in members[channels[k].key]
                       /\ \/ RoleAt(k) # None
                          \/ channels[k].val \in ServerChannels(channels[k].key))
                          => GoesOn(h, h.i + 1, k, None)]_vars

\* the grant of u1 in s1 raised and is not on the list, and the task of u1
\* has gone on to the grant in s2
C26_Witness ==
    /\ today = Date(LastYear, 12, 30)
    /\ lastOp = "handle_bday"
    /\ <<"s1", "u1", "r1">> \notin held
    /\ Occurrences(yesterday, "u1") = 0
    /\ \E h \in DOMAIN handling :
          h.user = "u1" /\ h.i = 2 /\ h.n = 2 /\ h.server = "s2" /\ h.pc = "add_roles"

---------------------------------------------------------------------------
(* Properties of the settings, under SpecSettings *)

\* the entry e of config[kind] refers to a served server and to a role or a
\* channel that server has
Resolves(e, kind) ==
    /\ e.key \in DOMAIN members
    /\ <<e.key, e.val>> \in serverItems
    /\ e.val \in (IF kind = "roles" THEN RoleIds ELSE ChannelIds)

\* the entries of a dict
ItemsOf(items) == {items[i] : i \in 1..Len(items)}

\* a handler that runs clean_settings
RunsCleanSettings ==
    \/ BdayClean
    \/ \E s \in Servers : BdayRemrole(s)
    \/ \E s \in Servers : BdayRemchannel(s)

\* C24: after clean_settings every entry left in config["channels"] and in
\* config["roles"] refers to a served server and to a channel or role that
\* server still has, and the clean command leaves every such entry as it was.
C24_CleanSettingsKeepsResolvable ==
    [][/\ RunsCleanSettings =>
             /\ \A e \in ItemsOf(roles') : Resolves(e, "roles") /\ e \in ItemsOf(roles)
             /\ \A e \in ItemsOf(channels') :
                   Resolves(e, "channels") /\ e \in ItemsOf(channels)
       /\ BdayClean =>
             /\ \A e \in ItemsOf(roles) : Resolves(e, "roles") => e \in ItemsOf(roles')
             /\ \A e \in ItemsOf(channels) :
                   Resolves(e, "channels") => e \in ItemsOf(channels')]_vars

\* the clean command deleted the role entry of s1, still served, whose role
\* was deleted, and kept the entries of s2
C24_Witness ==
    /\ lastOp = "clean_settings: entry deleted"
    /\ DOMAIN members = Servers
    /\ serverItems = AllItems \ {<<"s1", "r1">>}
    /\ Get(roles, "s1") = None
    /\ Get(roles, "s2") = Some("r2")
    /\ Get(channels, "s2") = Some("c1")

\* C29: remrole and remchannel in server s remove the entry of s of that
\* dict only: every entry of another server that still resolves stays in that
\* dict, and so does every entry of the other dict that still resolves, the
\* one of s included (s being a server that has the entry to remove).
C29_RemoveSettingOfThatServerOnly ==
    [][\A s \in Servers :
          /\ (BdayRemrole(s) /\ Get(roles, s) # None) =>
                /\ \A e \in ItemsOf(roles) :
                      (e.key # s /\ Resolves(e, "roles")) => e \in ItemsOf(roles')
                /\ \A e \in ItemsOf(channels) :
                      Resolves(e, "channels") => e \in ItemsOf(channels')
          /\ (BdayRemchannel(s) /\ Get(channels, s) # None) =>
                /\ \A e \in ItemsOf(channels) :
                      (e.key # s /\ Resolves(e, "channels")) => e \in ItemsOf(channels')
                /\ \A e \in ItemsOf(roles) :
                      Resolves(e, "roles") => e \in ItemsOf(roles')]_vars

---------------------------------------------------------------------------
(* Properties of the wizard's answers, under Spec and SpecRace *)

\* the message is no valid entry: it is no date of the year 4, or its year
\* is outside -9999..9999, or it is Feb 29 of a year that is not a leap year
InvalidEntry(c) ==
    \/ c.kind # "date"
    \/ ~ValidDate(4, c.m, c.d)
    \/ c.year # None /\ c.year[1] \notin (0 - 9999)..9999
    \/ c.year # None /\ c.m = 2 /\ c.d = 29 /\ ~IsLeap(c.year[1])

\* C25: an invalid entry received while the session waits for the birthday
\* changes neither the store nor the session, which goes on waiting, and
\* hands nothing on to on_writebday.
C25_InvalidEntryChangesNothing ==
    [][\A u \in Users, c \in Contents :
          (/\ OnMessage(u, c)
           /\ sessions[GetBdayinputByUser(u)[1]].status = "waiting for birthday"
           /\ InvalidEntry(c))
              => /\ sessions' = sessions
                 /\ writebday' = writebday
                 /\ birthdays' = birthdays]_vars

\* the status of session id among the sessions s
StatusIn(s, id) == IF id \in DOMAIN s THEN s[id].status ELSE "none"

YesMessage == [kind |-> "yes", m |-> 0, d |-> 0, year |-> None]

\* C27: a record is written for a session only after its user answered yes:
\* the store changes by on_writebday alone, an entry is handed to
\* on_writebday only by a session waiting for the birthday, a session comes
\* to wait for the birthday only from "confirmed terms", and it comes to
\* "confirmed terms" only by a yes of its starter while it waits for the terms.
C27_RecordOnlyAfterYes ==
    [][/\ birthdays' # birthdays => \E e \in writebday : OnWritebday(e)
       /\ \A id \in SessionIds :
             /\ (\E e \in writebday' \ writebday : e.id = id)
                    => StatusIn(sessions, id) = "waiting for birthday"
             /\ (/\ StatusIn(sessions', id) = "waiting for birthday"
                 /\ StatusIn(sessions, id) # "waiting for birthday")
                    => StatusIn(sessions, id) = "confirmed terms"
             /\ (/\ StatusIn(sessions', id) = "confirmed terms"
                 /\ StatusIn(sessions, id) # "confirmed terms")
                    => /\ StatusIn(sessions, id) = "waiting for terms confirm"
                       /\ OnMessage(sessions[id].starter, YesMessage)]_vars

\* on_writebday stored the Feb-29 entry of u2, whose session received it
C27_Witness ==
    /\ lastOp = "on_writebday"
    /\ BucketsOf("u2") = {1155}
    /\ \E id \in DOMAIN sessions :
          sessions[id].starter = "u2" /\ sessions[id].status = "bdayreceived"

\* C28: a session whose user answered yes goes on to wait for the birthday,
\* whatever the user writes before confirmtheterms sees the answer: from
\* "confirmed terms" the status only ever becomes "waiting for birthday".
C28_ConfirmedSessionGoesOn ==
    [][\A id \in DOMAIN sessions :
          sessions[id].status = "confirmed terms"
              => StatusIn(sessions', id) \in {"confirmed terms", "waiting for birthday"}]_vars

---------------------------------------------------------------------------
(* Properties of the remove command, under Spec *)

\* the record of user u in the store b: the bucket and the year, or None
RecordIn(b, u) ==
    IF \E k \in DOMAIN b : u \in DOMAIN b[k]
    THEN LET k == CHOOSE kk \in DOMAIN b : u \in DOMAIN b[kk]
         IN  Some([key |-> k, year |-> b[k][u]])
    ELSE None

\* C30: after the remove command of user u, u is in no bucket and every other
\* user who is a member of a served server has the record the user had; no
\* handler that ends with clean_bdays deletes the record of such a member,
\* other than the one of the user who removes theirs.
C30_RemoveTakesOnlyTheirRecord ==
    [][/\ \A u \in Users : BdayRemove(u) =>
             /\ \A k \in DOMAIN birthdays' : u \notin DOMAIN birthdays'[k]
             /\ \A v \in Users \ {u} :
                   Resolvable(members, v) => RecordIn(birthdays', v) = RecordIn(birthdays, v)
       /\ lastOp' \in CleanupOps =>
             \A v \in Users :
                (Resolvable(members, v) /\ RecordIn(birthdays', v) # RecordIn(birthdays, v))
                    => BdayRemove(v)]_vars

\* u1 removed the record it had; u2, a member of a served server, keeps the
\* record in the Feb-28 bucket with its year
C30_Witness ==
    /\ lastOp = "bday_remove"
    /\ Resolvable(members, "u2")
    /\ RecordIn(birthdays, "u1") = None
    /\ RecordIn(birthdays, "u2") = Some([key |-> 1154, year |-> Some(9999)])

=============================================================================
